---- MODULE Spec2Model ----
(***************************************************************************)
(* STM32F0 I2S quadrature generator (src/main.c): a DDS phase accumulator  *)
(* indexes a 256-entry sine wavetable and fills one half of a circular DMA *)
(* buffer from the DMA half-transfer / transfer-complete interrupt while   *)
(* the DMA channel streams the other half to the I2S data register.        *)
(*                                                                         *)
(* Processes: main (setup, wavetable generation, idle loop), the DMA       *)
(* channel (the sink, free running once enabled) and the interrupt handler *)
(* (preempts main, never itself).                                          *)
(*                                                                         *)
(* uint32_t values are kept as two 16-bit limbs [hi, lo] so that the       *)
(* arithmetic modulo 2^32 of the code is computed exactly.                 *)
(***************************************************************************)
EXTENDS Integers, Sequences, FiniteSets, TLC

\* ---------------------------------------------------------------- bounds
\* Number of samples the DMA channel transfers before the model stops it.
MaxReads == 160

\* ------------------------------------------------------- program constants
DMA_BUFSIZ == 32
FS == 46875
FREQOUT == 8000
\* int16_t sinewt[256]
TableSize == 256
\* phac>>(32-8): width of the accumulator and of the table index
PhaseBits == 32
IndexBits == 8
\* cosph = (sinph + 256/4)&255
IndexMask == 255
\* 16-bit limb of a uint32_t
W16 == 256 * 256

\* int16_t dmabuf[DMA_BUFSIZ*2]; D.DMA_BufferSize = DMA_BUFSIZ*2
BufLen == DMA_BUFSIZ * 2

\* ------------------------------------------------------ uint32 arithmetic
RECURSIVE Pow2(_)
Pow2(e) == IF e = 0 THEN 1 ELSE 2 * Pow2(e - 1)

\* a uint32_t from a natural below 2^31
U32(x) == [hi |-> (x \div W16) % W16, lo |-> x % W16]

\* a + b modulo 2^32
Add32(a, b) ==
    LET s == a.lo + b.lo
    IN  [hi |-> (a.hi + b.hi + (s \div W16)) % W16, lo |-> s % W16]

\* a >> s, for 16 <= s < 32
Shr32(a, s) == a.hi \div Pow2(s - 16)

\* x & y on naturals
RECURSIVE BitAnd(_, _)
BitAnd(x, y) ==
    IF x = 0 \/ y = 0 THEN 0
    ELSE (x % 2) * (y % 2) + 2 * BitAnd(x \div 2, y \div 2)

\* floor(2^32 / d) by long division of the base-256 digits 1,0,0,0,0
RECURSIVE LongDiv(_, _, _, _)
LongDiv(digits, d, q, r) ==
    IF digits = << >> THEN q
    ELSE LET r2 == r * 256 + Head(digits)
         IN  LongDiv(Tail(digits), d, q * 256 + (r2 \div d), r2 % d)

DivPow32(d) == LongDiv(<<1, 0, 0, 0, 0>>, d, 0, 0)

\* variant of tw: the multiplication by FREQOUT on the rounded-up quotient
twRoundedUp == U32((DivPow32(2 * FS) + 1) * FREQOUT)

\* variant of tw: the sample rate not doubled for the two channels
twOneChannel == U32(DivPow32(FS) * FREQOUT)

\* const uint32_t tw = (4294967296UL/(2*FS))*FREQOUT;
tw == U32(DivPow32(2 * FS) * FREQOUT)

\* ------------------------------------------------------------- wavetable
\* 32767*sin((double)n*2*M_PI/256.0) in thousandths (IEEE double value,
\* cut after the third decimal), n = 0..255
AmpSinMilli ==
    <<
      0, 804142, 1607800, 2410490, 3211727, 4011030, 4807917, 5601908,
      6392524, 7179290, 7961731, 8739376, 9511758, 10278409, 11038869, 11792680,
      12539388, 13278542, 14009697, 14732414, 15446256, 16150795, 16845604, 17530267,
      18204369, 18867507, 19519279, 20159293, 20787164, 21402514, 22004972, 22594175,
      23169767, 23731404, 24278745, 24811462, 25329233, 25831747, 26318701, 26789801,
      27244764, 27683316, 28105193, 28510140, 28897914, 29268280, 29621017, 29955911,
      30272760, 30571375, 30851574, 31113189, 31356063, 31580050, 31785014, 31970831,
      32137391, 32284592, 32412346, 32520576, 32609217, 32678216, 32727530, 32757131,
      32767000, 32757131, 32727530, 32678216, 32609217, 32520576, 32412346, 32284592,
      32137391, 31970831, 31785014, 31580050, 31356063, 31113189, 30851574, 30571375,
      30272760, 29955911, 29621017, 29268280, 28897914, 28510140, 28105193, 27683316,
      27244764, 26789801, 26318701, 25831747, 25329233, 24811462, 24278745, 23731404,
      23169767, 22594175, 22004972, 21402514, 20787164, 20159293, 19519279, 18867507,
      18204369, 17530267, 16845604, 16150795, 15446256, 14732414, 14009697, 13278542,
      12539388, 11792680, 11038869, 10278409, 9511758, 8739376, 7961731, 7179290,
      6392524, 5601908, 4807917, 4011030, 3211727, 2410490, 1607800, 804142,
      0, -804142, -1607800, -2410490, -3211727, -4011030, -4807917, -5601908,
      -6392524, -7179290, -7961731, -8739376, -9511758, -10278409, -11038869, -11792680,
      -12539388, -13278542, -14009697, -14732414, -15446256, -16150795, -16845604, -17530267,
      -18204369, -18867507, -19519279, -20159293, -20787164, -21402514, -22004972, -22594175,
      -23169767, -23731404, -24278745, -24811462, -25329233, -25831747, -26318701, -26789801,
      -27244764, -27683316, -28105193, -28510140, -28897914, -29268280, -29621017, -29955911,
      -30272760, -30571375, -30851574, -31113189, -31356063, -31580050, -31785014, -31970831,
      -32137391, -32284592, -32412346, -32520576, -32609217, -32678216, -32727530, -32757131,
      -32767000, -32757131, -32727530, -32678216, -32609217, -32520576, -32412346, -32284592,
      -32137391, -31970831, -31785014, -31580050, -31356063, -31113189, -30851574, -30571375,
      -30272760, -29955911, -29621017, -29268280, -28897914, -28510140, -28105193, -27683316,
      -27244764, -26789801, -26318701, -25831747, -25329233, -24811462, -24278745, -23731404,
      -23169767, -22594175, -22004972, -21402514, -20787164, -20159293, -19519279, -18867507,
      -18204369, -17530267, -16845604, -16150795, -15446256, -14732414, -14009697, -13278542,
      -12539388, -11792680, -11038869, -10278409, -9511758, -8739376, -7961731, -7179290,
      -6392524, -5601908, -4807917, -4011030, -3211727, -2410490, -1607800, -804142
    >>

\* reference: a conversion that rounds to the nearest integer (lround)
DoubleToInt16Nearest(milli) ==
    IF milli >= 0 THEN (milli + 500) \div 1000 ELSE -((500 - milli) \div 1000)

\* conversion double -> int16_t: the fraction is discarded (toward zero)
DoubleToInt16(milli) ==
    IF milli >= 0 THEN milli \div 1000 ELSE -((-milli) \div 1000)

\* variant of WavetableEntry: the table holds a cosine period instead of a sine period
WavetableEntryCosine(i) ==
    DoubleToInt16(AmpSinMilli[((i + TableSize \div 4) % TableSize) + 1])

\* sinewt[n] = 32767*sin((double)n*2*M_PI/256.0);
WavetableEntry(i) == DoubleToInt16(AmpSinMilli[i + 1])

\* ----------------------------------------------------------------- state
VARIABLES
    mpc,        \* main: "init", "gen", "enable", "idle"
    wn,         \* main's n, the wavetable loop index
    sinewt,     \* int16_t sinewt[256]
    dmabuf,     \* int16_t dmabuf[DMA_BUFSIZ*2]
    phac,       \* static uint32_t phac (limbs)
    sinph,      \* static uint32_t sinph
    cosph,      \* static uint32_t cosph
    hpc,        \* handler: "none" (not active), "L120", "L121", "L122",
                \* "L124", "L125", "L128", "pop" (inside Populate), "ret"
    pos,        \* Populate's argument
    n,          \* Populate's loop index
    lr,         \* where the handler continues when Populate returns
    ht,         \* DMA1_IT_HT3 pending
    tc,         \* DMA1_IT_TC3 pending
    irqEn,      \* HT/TC interrupts enabled in the channel and the NVIC
    dmaEn,      \* DMA channel and I2S enabled: the sink is streaming
    reads,      \* samples transferred by the DMA channel so far
    sinkVal,    \* last sample moved to the I2S data register
    \* history variables
    k,          \* scalar samples written by Populate since reset
    bufk,       \* per buffer position: the k of the sample it holds, -1 initially
    sinkK,      \* the k of the last sample the sink read, -1 for initial contents
    sinkSrc,    \* last read: "none", "init", "done" (fill completed), "running"
    missed,     \* an event was raised before the previous one's Fill had finished
    invEvent,   \* event acknowledged by the running handler invocation
    invFills,   \* Populate arguments called by the running handler invocation
    acks,       \* events acknowledged so far, per kind
    fillsDone,  \* Populate calls that have returned, per argument
    kStart,     \* k when the running (or last) Populate was called
    oob,        \* an array was accessed outside its bounds
    entryBoth   \* both flags were pending when the running invocation was entered

vars == <<mpc, wn, sinewt, dmabuf, phac, sinph, cosph, hpc, pos, n, lr, ht, tc,
          irqEn, dmaEn, reads, sinkVal, k, bufk, sinkK, sinkSrc, missed,
          invEvent, invFills, acks, fillsDone, kStart, oob, entryBoth>>

mainVars == <<mpc, wn, sinewt, irqEn, dmaEn>>
popVars == <<dmabuf, phac, sinph, cosph, pos, n, lr, k, bufk, fillsDone, kStart, oob>>
sinkVars == <<reads, sinkVal, sinkK, sinkSrc, missed>>
invVars == <<invEvent, invFills, acks, entryBoth>>

\* globals are zero-initialised; static phac = 0; flags clear after reset
Init ==
    /\ mpc = "init"
    /\ wn = 0
    /\ sinewt = [i \in 0..(TableSize - 1) |-> 0]
    /\ dmabuf = [i \in 0..(BufLen - 1) |-> 0]
    /\ phac = U32(0)
    /\ sinph = 0
    /\ cosph = 0
    /\ hpc = "none"
    /\ pos = 0
    /\ n = 0
    /\ lr = "ret"
    /\ ht = FALSE
    /\ tc = FALSE
    /\ irqEn = FALSE
    /\ dmaEn = FALSE
    /\ reads = 0
    /\ sinkVal = 0
    /\ k = 0
    /\ bufk = [i \in 0..(BufLen - 1) |-> -1]
    /\ sinkK = -1
    /\ sinkSrc = "none"
    /\ missed = FALSE
    /\ invEvent = "none"
    /\ entryBoth = FALSE
    /\ invFills = << >>
    /\ acks = [HT |-> 0, TC |-> 0]
    /\ fillsDone = [first |-> 0, second |-> 0]
    /\ kStart = 0
    /\ oob = FALSE

\* ------------------------------------------------------------------ main
\* variant of MainFlow: streaming is enabled before the wavetable loop
MainFlowEnableFirst(pc) ==
    CASE pc = "init"   -> "enable"
      [] pc = "enable" -> "gen"
      [] pc = "gen"    -> "idle"
      [] OTHER         -> "idle"

\* order of main's phases
MainFlow(pc) ==
    CASE pc = "init"   -> "gen"
      [] pc = "gen"    -> "enable"
      [] pc = "enable" -> "idle"
      [] OTHER         -> "idle"

\* peripheral setup: pending bits cleared, HT and TC interrupts enabled
MainSetup ==
    /\ mpc = "init"
    /\ hpc = "none"
    /\ ht' = FALSE
    /\ tc' = FALSE
    /\ irqEn' = TRUE
    /\ mpc' = MainFlow("init")
    /\ UNCHANGED <<wn, sinewt, dmaEn, hpc>>
    /\ UNCHANGED <<popVars, sinkVars, invVars>>

\* for(n = 0; n<256.0; n++) sinewt[n] = 32767*sin(...)
MainGenerate ==
    /\ mpc = "gen"
    /\ hpc = "none"
    /\ IF wn < TableSize
       THEN /\ sinewt' = [sinewt EXCEPT ![wn] = WavetableEntry(wn)]
            /\ wn' = wn + 1
            /\ mpc' = mpc
       ELSE /\ mpc' = MainFlow("gen")
            /\ UNCHANGED <<sinewt, wn>>
    /\ UNCHANGED <<irqEn, dmaEn, hpc, ht, tc>>
    /\ UNCHANGED <<popVars, sinkVars, invVars>>

\* DMA_Cmd(DMA1_Channel3, ENABLE); I2S_Cmd(I2S_SPI, ENABLE);
MainEnable ==
    /\ mpc = "enable"
    /\ hpc = "none"
    /\ dmaEn' = TRUE
    /\ mpc' = MainFlow("enable")
    /\ UNCHANGED <<wn, sinewt, irqEn, hpc, ht, tc>>
    /\ UNCHANGED <<popVars, sinkVars, invVars>>

\* while(1) { }
MainIdle ==
    /\ mpc = "idle"
    /\ hpc = "none"
    /\ UNCHANGED vars

\* ------------------------------------------------------------------ sink
\* the handler has an event in hand whose Fill has not finished
FillOutstanding ==
    \/ ht
    \/ tc
    \/ hpc \in {"L121", "L122", "L125", "L128", "pop"}

\* The DMA channel moves dmabuf[reads mod BufLen] to the I2S data register
\* (circular mode, BufLen transfers per pass) and sets the half-transfer
\* flag after DMA_BUFSIZ transfers of a pass, the transfer-complete flag
\* after the last one.
SinkRead ==
    /\ dmaEn
    /\ reads < MaxReads
    /\ LET p == reads % BufLen
           raiseHT == (reads + 1) % BufLen = DMA_BUFSIZ
           raiseTC == (reads + 1) % BufLen = 0
       IN  /\ sinkVal' = dmabuf[p]
           /\ sinkK' = bufk[p]
           /\ sinkSrc' = IF bufk[p] < 0 THEN "init"
                         ELSE IF hpc = "pop" /\ bufk[p] >= k - (n - pos)
                              THEN "running" ELSE "done"
           /\ reads' = reads + 1
           /\ ht' = (ht \/ raiseHT)
           /\ tc' = (tc \/ raiseTC)
           /\ missed' = (missed \/ ((raiseHT \/ raiseTC) /\ FillOutstanding))
    /\ UNCHANGED <<mainVars, popVars, invVars, hpc>>

\* --------------------------------------------------------------- handler
\* variant of HandlerFlow: "if" in place of "else if", so the TC test also
\* runs after Populate(0) has returned
HandlerFlowNoElse(pc, c) ==
    CASE pc = "L120" -> (IF c THEN "L121" ELSE "L124")
      [] pc = "L121" -> "L122"
      [] pc = "L122" -> "L124"
      [] pc = "L124" -> (IF c THEN "L125" ELSE "ret")
      [] pc = "L125" -> "L128"
      [] pc = "L128" -> "ret"
      [] OTHER       -> "ret"

\* variant of HandlerFlow: the else branch is missing, only the
\* half-transfer event is handled
HandlerFlowNoTC(pc, c) ==
    CASE pc = "L120" -> (IF c THEN "L121" ELSE "ret")
      [] pc = "L121" -> "L122"
      [] pc = "L122" -> "ret"
      [] OTHER       -> "ret"

\* variant of HandlerFlow: the pending bit is cleared after Populate returns
HandlerFlowAckLast(pc, c) ==
    CASE pc = "L120" -> (IF c THEN "L122" ELSE "L124")
      [] pc = "L122" -> "L121"
      [] pc = "L121" -> "ret"
      [] pc = "L124" -> (IF c THEN "L128" ELSE "ret")
      [] pc = "L128" -> "L125"
      [] pc = "L125" -> "ret"
      [] OTHER       -> "ret"

\* control flow of DMA1_Channel2_3_IRQHandler; c is the outcome of the test
\* at a conditional, the statement after a call is where Populate returns
HandlerFlow(pc, c) ==
    CASE pc = "L120" -> (IF c THEN "L121" ELSE "L124")
      [] pc = "L121" -> "L122"
      [] pc = "L122" -> "ret"
      [] pc = "L124" -> (IF c THEN "L125" ELSE "ret")
      [] pc = "L125" -> "L128"
      [] pc = "L128" -> "ret"
      [] OTHER       -> "ret"

\* variant of PopulateArg: the two halves exchanged
PopulateArgSwapped(pc) == IF pc = "L122" THEN DMA_BUFSIZ ELSE 0

\* variant of PopulateArg: both events fill the first half
PopulateArgFirstOnly(pc) == 0

\* argument of the Populate call at a call site
PopulateArg(pc) == IF pc = "L122" THEN 0 ELSE DMA_BUFSIZ

\* variant of CanPreempt: the interrupt nests into its own handler
CanPreemptNested(pc) == TRUE

\* N.NVIC_IRQChannelPriority = 0 for the only enabled interrupt: it preempts
\* main and is held pending while its own handler is active
CanPreempt(pc) == pc = "none"

\* the interrupt is taken: a flag is pending and the handler is not active
IRQEntry ==
    /\ irqEn
    /\ CanPreempt(hpc)
    /\ ht \/ tc
    /\ hpc' = "L120"
    /\ invEvent' = "none"
    /\ invFills' = << >>
    /\ entryBoth' = (ht /\ tc)
    /\ UNCHANGED <<mainVars, popVars, sinkVars, ht, tc, acks>>

\* the vector is shared with DMA channel 2 and can be pended by software:
\* the handler may be entered with neither flag of channel 3 pending
IRQEntryOther ==
    /\ irqEn
    /\ CanPreempt(hpc)
    /\ ~(ht \/ tc)
    /\ hpc' = "L120"
    /\ invEvent' = "none"
    /\ invFills' = << >>
    /\ entryBoth' = FALSE
    /\ UNCHANGED <<mainVars, popVars, sinkVars, ht, tc, acks>>

\* if(DMA_GetITStatus(DMA1_IT_HT3))
TestHT ==
    /\ hpc = "L120"
    /\ hpc' = HandlerFlow("L120", ht)
    /\ UNCHANGED <<mainVars, popVars, sinkVars, invVars, ht, tc>>

\* DMA_ClearITPendingBit(DMA1_IT_HT3);
ClearHT ==
    /\ hpc = "L121"
    /\ ht' = FALSE
    /\ invEvent' = "HT"
    /\ acks' = [acks EXCEPT !.HT = @ + 1]
    /\ hpc' = HandlerFlow("L121", TRUE)
    /\ UNCHANGED <<mainVars, popVars, sinkVars, invFills, entryBoth, tc>>

\* else if(DMA_GetITStatus(DMA1_IT_TC3))
TestTC ==
    /\ hpc = "L124"
    /\ hpc' = HandlerFlow("L124", tc)
    /\ UNCHANGED <<mainVars, popVars, sinkVars, invVars, ht, tc>>

\* DMA_ClearITPendingBit(DMA1_IT_TC3);
ClearTC ==
    /\ hpc = "L125"
    /\ tc' = FALSE
    /\ invEvent' = "TC"
    /\ acks' = [acks EXCEPT !.TC = @ + 1]
    /\ hpc' = HandlerFlow("L125", TRUE)
    /\ UNCHANGED <<mainVars, popVars, sinkVars, invFills, entryBoth, ht>>

\* Populate(0); / Populate(DMA_BUFSIZ); : the call and for's n = pos
CallPopulate ==
    /\ hpc \in {"L122", "L128"}
    /\ pos' = PopulateArg(hpc)
    /\ n' = PopulateArg(hpc)
    /\ lr' = HandlerFlow(hpc, TRUE)
    /\ invFills' = Append(invFills, PopulateArg(hpc))
    /\ kStart' = k
    /\ hpc' = "pop"
    /\ UNCHANGED <<mainVars, sinkVars, invEvent, acks, entryBoth, ht, tc>>
    /\ UNCHANGED <<dmabuf, phac, sinph, cosph, k, bufk, fillsDone, oob>>

\* variant of SinePhase: the shift one bit short, a 9-bit index
SinePhaseWide(ph) == Shr32(ph, PhaseBits - IndexBits - 1)

\* sinph = phac>>(32-8);
SinePhase(ph) == Shr32(ph, PhaseBits - IndexBits)

\* variant of CosinePhase: the index is not wrapped
CosinePhaseNoMask(s) == s + (TableSize \div 4)

\* cosph = (sinph + 256/4)&255;
CosinePhase(s) == BitAnd(s + (TableSize \div 4), IndexMask)

\* variant of TableIndex: the channels exchanged
TableIndexSwapped(i, s, c) == IF BitAnd(i, 1) # 0 THEN c ELSE s

\* if(n&1) ...sinewt[sinph]; else ...sinewt[cosph]; : the index read
TableIndex(i, s, c) == IF BitAnd(i, 1) # 0 THEN s ELSE c

\* the values a read of sinewt[idx] can give: the entry, or, outside the
\* array, whatever lies there
TableRead(idx) ==
    IF idx \in DOMAIN sinewt THEN {sinewt[idx]} ELSE {-32768, 0, 32767}

\* variant of Advance: the phase advances once per stereo frame
AdvancePerFrame(ph) == IF n % 2 = 1 THEN Add32(ph, tw) ELSE ph

\* phac += tw;
Advance(ph) == Add32(ph, tw)

\* variant of LoopCond: the last position of the half is left out
LoopCondShort(i, p) == i < p + DMA_BUFSIZ - 1

\* variant of LoopCond: DMA_BUFSIZ taken as stereo frames, two samples each
LoopCondFrames(i, p) == i < p + 2 * DMA_BUFSIZ

\* variant of LoopCond: one position past the end of the half is included
LoopCondInclusive(i, p) == i <= p + DMA_BUFSIZ

\* n<pos+DMA_BUFSIZ
LoopCond(i, p) == i < p + DMA_BUFSIZ

\* one pass of Populate's for: the test, then the body and n++, or the return
PopulateLoop ==
    /\ hpc = "pop"
    /\ IF LoopCond(n, pos)
       THEN /\ sinph' = SinePhase(phac)
            /\ cosph' = CosinePhase(sinph')
            /\ \E sample \in TableRead(TableIndex(n, sinph', cosph')) :
                  IF n \in DOMAIN dmabuf
                  THEN /\ dmabuf' = [dmabuf EXCEPT ![n] = sample]
                       /\ bufk' = [bufk EXCEPT ![n] = k]
                       /\ oob' = (oob \/ TableIndex(n, sinph', cosph') \notin DOMAIN sinewt)
                  ELSE /\ oob' = TRUE
                       /\ UNCHANGED <<dmabuf, bufk>>
            /\ phac' = Advance(phac)
            /\ n' = n + 1
            /\ k' = k + 1
            /\ UNCHANGED <<hpc, pos, lr, fillsDone, kStart>>
       ELSE /\ hpc' = lr
            /\ fillsDone' = IF pos = 0
                             THEN [fillsDone EXCEPT !.first = @ + 1]
                             ELSE [fillsDone EXCEPT !.second = @ + 1]
            /\ UNCHANGED <<dmabuf, phac, sinph, cosph, pos, n, lr, k, bufk, kStart, oob>>
    /\ UNCHANGED <<mainVars, sinkVars, invVars, ht, tc>>

\* return from the handler
IRQReturn ==
    /\ hpc = "ret"
    /\ hpc' = "none"
    /\ entryBoth' = FALSE
    /\ UNCHANGED <<mainVars, popVars, sinkVars, invEvent, invFills, acks, ht, tc>>

Main == MainSetup \/ MainGenerate \/ MainEnable \/ MainIdle

Handler ==
    \/ IRQEntry
    \/ IRQEntryOther
    \/ TestHT
    \/ ClearHT
    \/ TestTC
    \/ ClearTC
    \/ CallPopulate
    \/ PopulateLoop
    \/ IRQReturn

Next == Main \/ SinkRead \/ Handler

Spec == Init /\ [][Next]_vars

\* the handler's own steps: a pending interrupt is taken and the handler
\* runs to its return
HandlerRun ==
    \/ IRQEntry
    \/ TestHT
    \/ ClearHT
    \/ TestTC
    \/ ClearTC
    \/ CallPopulate
    \/ PopulateLoop
    \/ IRQReturn

\* The DMA channel keeps transferring while enabled; a pending interrupt is
\* taken and the core keeps executing the handler it is in.
LiveSpec == Spec /\ WF_vars(SinkRead) /\ WF_vars(HandlerRun)

\* ------------------------------------------- Populate from any phase value
\* 32-bit phase values: every value of the top byte, with the bits below it
\* all clear or all set
PhaseSamples ==
    {[hi |-> 256 * a + b, lo |-> c] : a \in 0..255, b \in {0, 255}, c \in {0, W16 - 1}}

\* The handler has acknowledged an event and called Populate, streaming is
\* on, the wavetable is generated; the phase accumulator holds any of the
\* sampled 32-bit values.
PhaseInit ==
    /\ mpc = "idle"
    /\ wn = TableSize
    /\ sinewt = [i \in 0..(TableSize - 1) |-> WavetableEntry(i)]
    /\ dmabuf = [i \in 0..(BufLen - 1) |-> 0]
    /\ phac \in PhaseSamples
    /\ sinph = 0
    /\ cosph = 0
    /\ hpc = "pop"
    /\ \E e \in {"L122", "L128"} :
          /\ pos = PopulateArg(e)
          /\ n = PopulateArg(e)
          /\ lr = HandlerFlow(e, TRUE)
          /\ invEvent = (IF e = "L122" THEN "HT" ELSE "TC")
          /\ invFills = <<PopulateArg(e)>>
          /\ acks = (IF e = "L122" THEN [HT |-> 1, TC |-> 0] ELSE [HT |-> 0, TC |-> 1])
          /\ reads = (IF e = "L122" THEN DMA_BUFSIZ ELSE BufLen)
    /\ ht = FALSE
    /\ tc = FALSE
    /\ irqEn = TRUE
    /\ dmaEn = TRUE
    /\ sinkVal = 0
    /\ k = 0
    /\ bufk = [i \in 0..(BufLen - 1) |-> -1]
    /\ sinkK = -1
    /\ sinkSrc = "init"
    /\ missed = FALSE
    /\ fillsDone = [first |-> 0, second |-> 0]
    /\ kStart = 0
    /\ oob = FALSE
    /\ entryBoth = FALSE

PhaseNext == PopulateLoop

PhaseSpec == PhaseInit /\ [][PhaseNext]_vars

TypeOK ==
    /\ mpc \in {"init", "gen", "enable", "idle"}
    /\ wn \in 0..TableSize
    /\ hpc \in {"none", "L120", "L121", "L122", "L124", "L125", "L128", "pop", "ret"}
    /\ phac.hi \in 0..(W16 - 1) /\ phac.lo \in 0..(W16 - 1)
    /\ n \in 0..BufLen
    /\ oob = FALSE
    /\ pos \in {0, DMA_BUFSIZ}
    /\ reads \in 0..MaxReads
    /\ \A i \in DOMAIN dmabuf : dmabuf[i] \in -32768..32767
    /\ \A i \in DOMAIN sinewt : sinewt[i] \in -32768..32767

\* ================================================================ claims
\* half of the buffer a position lies in: 0 (first) or 1 (second)
HalfOf(p) == p \div DMA_BUFSIZ

\* the half the DMA channel reads next
SinkHalf == HalfOf(reads % BufLen)

\* k * a modulo 2^32, by doubling
RECURSIVE Times32(_, _)
Times32(j, a) ==
    IF j = 0 THEN U32(0)
    ELSE LET h == Times32(j \div 2, a)
             d == Add32(h, h)
         IN  IF j % 2 = 1 THEN Add32(d, a) ELSE d

\* C1: as long as no event was raised before the previous event's Fill had
\* finished, a running Populate works on the half the sink is not reading:
\* neither its argument's half nor the position it writes next lies in the
\* half of the sink's next read.
C1_DisjointHalves ==
    (hpc = "pop" /\ ~missed) =>
        /\ HalfOf(pos) # SinkHalf
        /\ LoopCond(n, pos) => HalfOf(n) # SinkHalf

\* C1 witness: in the second pass the second half is being filled, five
\* samples in, while the sink reads the first half, all deadlines met
C1_Witness ==
    /\ hpc = "pop" /\ ~missed
    /\ pos = DMA_BUFSIZ /\ n = pos + 5
    /\ reads > BufLen /\ SinkHalf = 0

\* handler positions at which no acknowledged event awaits its Fill
HandlerSettled == hpc \in {"none", "L120", "L124", "ret"}

\* C2: a handler invocation that acknowledged HalfComplete has called
\* Populate once, with 0; one that acknowledged FullComplete once, with
\* DMA_BUFSIZ; one that acknowledged nothing has called nothing; whenever no
\* acknowledged event awaits its Fill, the completed Fills of each half
\* equal the acknowledged events of its kind and all samples ever written
\* are theirs.
C2_OneFillPerEvent ==
    /\ Len(invFills) <= 1
    /\ invFills # << >> =>
          \/ invEvent = "HT" /\ invFills = <<0>>
          \/ invEvent = "TC" /\ invFills = <<DMA_BUFSIZ>>
    /\ hpc = "ret" => (invEvent = "none" <=> invFills = << >>)
    /\ HandlerSettled =>
          /\ fillsDone.first = acks.HT
          /\ fillsDone.second = acks.TC
          /\ k = DMA_BUFSIZ * (acks.HT + acks.TC)

\* C2 witness: an invocation returns having handled FullComplete with one
\* Populate(DMA_BUFSIZ), after an earlier HalfComplete was handled
C2_Witness ==
    /\ hpc = "ret" /\ invEvent = "TC" /\ invFills = <<DMA_BUFSIZ>>
    /\ acks.HT >= 1 /\ fillsDone.first >= 1

\* C3: the phase accumulator equals k * tw modulo 2^32, k the number of
\* scalar samples written since reset, at every point of every Fill and
\* between Fills.
C3_PhaseLinear == phac = Times32(k, tw)

\* C3 witness: a Fill of the first half is about to write the sample at the
\* seam, right after a completed Fill of the second half, with the phase
\* wrapped around 2^32 several times
C3_Witness ==
    /\ hpc = "pop" /\ pos = 0 /\ n = 0
    /\ k = 2 * DMA_BUFSIZ /\ fillsDone.second = 1
    /\ phac = Times32(2 * DMA_BUFSIZ, tw)
    /\ phac # U32(0)

\* C4: while Populate runs its event has already been acknowledged in this
\* invocation, and from the call of Populate until the handler has returned
\* no pending flag is cleared: an event raised meanwhile stays pending.
C4_AckBeforeFill ==
    /\ [](hpc = "pop" => invEvent = (IF pos = 0 THEN "HT" ELSE "TC"))
    /\ [](hpc = "pop" /\ invEvent = "HT" => acks.HT = fillsDone.first + 1)
    /\ [][(hpc \in {"pop", "ret"}) => ((ht => ht') /\ (tc => tc'))]_vars

\* C4 witness: the handler returns from a HalfComplete invocation with both
\* events pending, raised by the sink after the acknowledgement
C4_Witness ==
    /\ hpc = "ret" /\ invEvent = "HT" /\ invFills = <<0>>
    /\ ht /\ tc

\* C5 as stated: every sample the sink reads was written by a completed
\* Fill, from the first read on.
C5_Original == reads > 0 => sinkSrc = "done"

\* C5 amended: the first pass over the buffer (the first 2*DMA_BUFSIZ reads)
\* outputs the initial zero contents; after it, as long as no event was
\* raised before the previous event's Fill had finished, every sample the
\* sink reads was written by a completed Fill.
C5_FilledAfterFirstPass ==
    /\ (0 < reads /\ reads <= BufLen) => (sinkSrc = "init" /\ sinkVal = 0)
    /\ (reads > BufLen /\ ~missed) => (sinkSrc = "done" /\ sinkK >= 0)

\* C5 witness: in the second pass the sink has read the last position of
\* the first half, filled by the completed first Fill
C5_Witness ==
    /\ reads = BufLen + DMA_BUFSIZ /\ ~missed
    /\ sinkSrc = "done" /\ sinkK = DMA_BUFSIZ - 1

\* a handler invocation is about to return from a completed Fill
FillCompleted == hpc = "ret" /\ invFills # << >>

\* C6 as stated: the buffer holds 128 scalar samples, 64 per half, and one
\* Fill writes 64 samples and advances the phase 64 times.
C6_Original ==
    FillCompleted =>
        /\ Cardinality(DOMAIN dmabuf) = 128
        /\ k - kStart = 64
        /\ phac = Times32(kStart + 64, tw)

\* C6 amended: DMA_BUFSIZ = 32 counts scalar samples: the buffer holds 64
\* scalar samples, 32 (16 stereo frames) per half; one Fill writes the 32
\* positions of its half, one sample each, and advances the phase 32 times.
C6_HalfIs32Samples ==
    /\ DOMAIN dmabuf = 0..63
    /\ FillCompleted =>
          /\ k - kStart = 32
          /\ n - pos = 32
          /\ pos \in {0, 32}
          /\ \A p \in pos..(pos + 31) : bufk[p] = kStart + (p - pos)
          /\ phac = Times32(kStart + 32, tw)

\* C6 witness: the third Fill (of the first half again) has completed
C6_Witness ==
    /\ FillCompleted /\ pos = 0 /\ kStart = 64 /\ k = 96
    /\ bufk[0] = 64 /\ bufk[31] = 95 /\ bufk[32] = 32

\* table index the sample at position p takes at phase ph
RefIndex(p, ph) ==
    IF p % 2 = 1 THEN ph.hi \div 256 ELSE ((ph.hi \div 256) + 64) % 256

\* C7: every step that changes the buffer, the phase or the sample count is
\* a step of Populate that stores, at the position n it is at, sinewt[ph>>24]
\* for odd n and sinewt[((ph>>24)+64) mod 256] for even n, ph the phase
\* before the step, touches no other position, and adds tw to the phase
\* exactly once; the sample Populate has just stored is the one that the
\* phase of its sample number gives.
C7_SampleRule ==
    /\ [][(k' # k \/ phac' # phac \/ dmabuf' # dmabuf) =>
            /\ hpc = "pop"
            /\ k' = k + 1
            /\ dmabuf' = [dmabuf EXCEPT ![n] = sinewt[RefIndex(n, phac)]]
            /\ phac' = Add32(phac, tw)
            /\ phac' # phac
            /\ Add32(phac', tw) # phac]_vars
    /\ []((hpc = "pop" /\ n > pos) =>
            /\ bufk[n - 1] = k - 1
            /\ dmabuf[n - 1] = sinewt[RefIndex(n - 1, Times32(k - 1, tw))])

\* C7 witness: Populate has just written an even position with the cosine
\* index wrapped past the end of the table, a value the sine index would
\* not have given
C7_Witness ==
    /\ hpc = "pop" /\ n > pos /\ n % 2 = 1
    /\ sinph >= 192 /\ cosph = sinph - 192
    /\ dmabuf[n - 1] = sinewt[cosph]
    /\ dmabuf[n - 1] # sinewt[sinph]

\* the wavetable after the generation loop
GeneratedTable == [i \in 0..(TableSize - 1) |-> WavetableEntry(i)]

\* C9: once streaming is enabled, and whenever Populate runs, all 256
\* entries of the wavetable have been generated; after the generation loop
\* has ended no step changes the wavetable.
C9_WavetableReady ==
    /\ []((dmaEn \/ hpc = "pop" \/ reads > 0) =>
            /\ wn = TableSize
            /\ sinewt = GeneratedTable)
    /\ [][wn = TableSize => sinewt' = sinewt]_vars

\* C9 witness: Populate runs on the generated table
C9_Witness ==
    /\ hpc = "pop" /\ n = pos + 3 /\ dmaEn /\ wn = TableSize
    /\ sinewt[64] = 32767 /\ sinewt[192] = -32767 /\ sinewt[255] = -804

\* bit i of x
BitOf(x, i) == (x \div Pow2(i)) % 2

\* the top 8 bits of a 32-bit value: bits 31..24, bit 24 the lowest
RECURSIVE TopBits(_, _)
TopBits(ph, i) ==
    IF i = 8 THEN 0 ELSE BitOf(ph.hi, 8 + i) * Pow2(i) + TopBits(ph, i + 1)

\* C8: for every phase value Populate meets, the sine index it computes is
\* the top 8 bits of the phase, the cosine index is (sine index + 64) mod
\* 256, both lie in 0..255, and no access leaves the wavetable.
C8_IndexRange ==
    /\ [](sinph \in 0..255 /\ cosph \in 0..255 /\ ~oob)
    /\ [][k' # k =>
            /\ sinph' = TopBits(phac, 0)
            /\ cosph' = (sinph' + 64) % 256
            /\ sinph' \in DOMAIN sinewt
            /\ cosph' \in DOMAIN sinewt
            /\ dmabuf'[n] \in {sinewt[sinph'], sinewt[cosph']}]_vars

\* C8 witness: Populate has computed sine index 255 from a phase with all
\* lower bits set, and cosine index 63
C8_Witness ==
    /\ hpc = "pop" /\ n = pos + 1
    /\ sinph = 255 /\ cosph = 63
    /\ phac = Add32([hi |-> W16 - 1, lo |-> W16 - 1], tw)

C11_SingleHandler ==
    /\ [][(hpc' = "L120" /\ hpc # "L120") => hpc = "none"]_vars
    /\ [][hpc # "none" => UNCHANGED mainVars]_vars
    /\ [][(hpc # "none" /\ ((ht' /\ ~ht) \/ (tc' /\ ~tc))) =>
            (hpc' = hpc /\ UNCHANGED <<invEvent, invFills, pos, n, phac, dmabuf>>)]_vars
    /\ [][(phac' # phac \/ dmabuf' # dmabuf) =>
            (hpc = "pop" /\ hpc' = "pop" /\ invFills = <<pos>>)]_vars
    /\ [](Len(invFills) <= 1 /\ (hpc = "pop" => invFills = <<pos>>))

\* C11 witness: both events were raised while Populate(0) runs in the idle
\* phase of main; they wait, the handler is ten samples into its Fill
C11_Witness ==
    /\ hpc = "pop" /\ invEvent = "HT" /\ pos = 0 /\ n = 10
    /\ ht /\ tc /\ mpc = "idle"

C13_TuningWord ==
    /\ DivPow32(2 * FS) = 45812
    /\ 2 * FS = 93750
    /\ Add32(Times32(45812, U32(93750)), U32(92296)) = U32(0)
    /\ 92296 < 93750
    /\ 45812 * 8000 = 366496000
    /\ (DivPow32(2 * FS) * FREQOUT) \div W16 < W16
    /\ tw = [hi |-> 366496000 \div W16, lo |-> 366496000 % W16]
    /\ k = 1 => phac = U32(366496000)

\* C13 witness: Populate has written its first sample and the phase
\* accumulator holds the tuning word
C13_Witness ==
    /\ k = 1 /\ hpc = "pop" /\ n = 1
    /\ phac = [hi |-> 5592, lo |-> 18688]

\* the bytes of a 32-bit value, lowest first
BytesOf(a) == <<a.lo % 256, a.lo \div 256, a.hi % 256, a.hi \div 256>>

\* a * m as the pair (floor(a*m / 2^32), a*m mod 2^32), by schoolbook
\* multiplication of the bytes of a, for m below 2^23
RECURSIVE MulByBytes(_, _, _, _, _)
MulByBytes(bytes, m, carry, low, weight) ==
    IF bytes = << >> THEN [top |-> carry, rest |-> low]
    ELSE LET t == Head(bytes) * m + carry
         IN  MulByBytes(Tail(bytes), m, t \div 256,
                        Add32(low, Times32(t % 256, weight)),
                        Times32(256, weight))

MulWide(a, m) == MulByBytes(BytesOf(a), m, 0, U32(0), U32(1))

\* tw * channelCount * sampleRate / 2^32, in Hz and thousandths of a Hz
ActualHz == MulWide(tw, 2 * FS).top
ActualMilli == MulWide(MulWide(tw, 2 * FS).rest, 1000).top

\* C14: the frequency produced, tw * 2 * 46875 / 2^32, is 7999.828 Hz:
\* within 200 Hz (2.5%) of the 8000 Hz target, between 7800 and 8200 Hz.
C14_FrequencyError ==
    /\ ActualHz >= 7800
    /\ ActualHz < 8200
    /\ FREQOUT - ActualHz <= 200
    /\ ActualHz - FREQOUT <= 199
    /\ ActualHz = 7999
    /\ ActualMilli = 828
    /\ k = 12 => phac.hi < tw.hi

\* C14 witness: after 12 samples (11.72 samples per output period) the
\* phase has wrapped around 2^32 for the first time
C14_Witness ==
    /\ k = 12 /\ phac = Times32(12, tw)
    /\ phac.hi < tw.hi
    /\ ActualHz = 7999

Abs(x) == IF x >= 0 THEN x ELSE -x

\* every entry the generation loop can produce is within the amplitude
TableWithinAmplitude ==
    \A i \in 0..(TableSize - 1) : Abs(WavetableEntry(i)) <= 32767

\* C15: every generated wavetable entry has magnitude at most 32767, and
\* the entries at 0, 64, 128, 192 are 0, 32767, 0, -32767 within +-1.
C15_TableRange ==
    /\ [](TableWithinAmplitude)
    /\ [][wn' = wn + 1 =>
            /\ sinewt'[wn] = WavetableEntry(wn)
            /\ Abs(sinewt'[wn]) <= 32767
            /\ \A i \in {0, 64, 128, 192} : sinewt'[i] = sinewt[i] \/ i = wn]_vars
    /\ [](wn = TableSize => sinewt = GeneratedTable)
    /\ [](wn > 0 => Abs(sinewt[0] - 0) <= 1)
    /\ [](wn > 64 => Abs(sinewt[64] - 32767) <= 1)
    /\ [](wn > 128 => Abs(sinewt[128] - 0) <= 1)
    /\ [](wn > 192 => Abs(sinewt[192] + 32767) <= 1)

\* C15 witness: the generation loop has just written entry 192
C15_Witness ==
    /\ mpc = "gen" /\ wn = 193
    /\ sinewt[0] = 0 /\ sinewt[64] = 32767 /\ sinewt[128] = 0
    /\ sinewt[192] = -32767 /\ sinewt[193] = 0

\* 32767*sin(2*pi*i/256) rounded to the nearest integer
RoundedEntry(i) == DoubleToInt16Nearest(AmpSinMilli[i + 1])

\* C16 as stated: every generated entry equals the amplitude rounded to the
\* nearest integer.
C16_Original ==
    \A i \in 0..(TableSize - 1) : i < wn => sinewt[i] = RoundedEntry(i)

\* what the conversion in the generation loop does instead: every generated
\* entry is the amplitude with its fraction discarded (truncated toward
\* zero): never larger in magnitude than the amplitude, less than 1 below
\* it, at most 1 away from the rounded value, and at some entries exactly
\* 1 away.
C16_TruncatedTowardZero ==
    /\ [][wn' = wn + 1 =>
            LET v == sinewt'[wn]
                x == AmpSinMilli[wn + 1]
            IN  /\ x >= 0 => (v * 1000 <= x /\ x < (v + 1) * 1000)
                /\ x < 0 => (v * 1000 >= x /\ x > (v - 1) * 1000)
                /\ Abs(v - RoundedEntry(wn)) <= 1
                /\ Abs(v) <= Abs(RoundedEntry(wn))]_vars
    /\ [](wn > 2 => (sinewt[2] = 1607 /\ RoundedEntry(2) = 1608))
    /\ [](wn > 130 => (sinewt[130] = -1607 /\ RoundedEntry(130) = -1608))

\* C16 failing input: entry 2 (1607.800) has been generated as 1607
C16_Witness ==
    /\ mpc = "gen" /\ wn = 3
    /\ sinewt[2] = 1607 /\ RoundedEntry(2) = 1608
    /\ AmpSinMilli[3] = 1607800

\* C17: Populate(pos), pos 0 or DMA_BUFSIZ, writes each position of
\* [pos, pos+DMA_BUFSIZ) exactly once in ascending order, no position
\* outside that range or outside dmabuf, and leaves the other half as it was.
C17_FillWritesOneHalf ==
    /\ [](~oob /\ (hpc = "pop" => pos \in {0, DMA_BUFSIZ}))
    /\ [][dmabuf' # dmabuf => (hpc = "pop" /\ k' = k + 1)]_vars
    /\ [][k' # k =>
            /\ n = pos + (k - kStart)
            /\ n >= pos /\ n < pos + DMA_BUFSIZ
            /\ n \in DOMAIN dmabuf /\ n < BufLen
            /\ n' = n + 1 /\ k' = k + 1
            /\ bufk'[n] = k
            /\ dmabuf' = [dmabuf EXCEPT ![n] = dmabuf'[n]]
            /\ bufk' = [bufk EXCEPT ![n] = k]]_vars
    /\ [][(hpc = "pop" /\ hpc' # "pop") =>
            /\ n = pos + DMA_BUFSIZ
            /\ k = kStart + DMA_BUFSIZ
            /\ \A p \in DOMAIN dmabuf :
                  IF HalfOf(p) = HalfOf(pos)
                  THEN bufk[p] = kStart + (p - pos)
                  ELSE bufk[p] < kStart]_vars

\* C17 witness: Populate(DMA_BUFSIZ) has written its 32 positions, the last
\* one being the last of the buffer, and is about to return
C17_Witness ==
    /\ hpc = "pop" /\ pos = DMA_BUFSIZ /\ n = BufLen
    /\ k = kStart + DMA_BUFSIZ /\ ~oob
    /\ bufk[BufLen - 1] = k - 1 /\ bufk[DMA_BUFSIZ] = kStart
    /\ bufk[DMA_BUFSIZ - 1] < kStart /\ bufk[0] >= 0

C19_Original ==
    [][(k' # k /\ n % 2 = 1) =>
          TableIndex(n - 1, sinph, cosph) =
              (TableIndex(n, sinph', cosph') + TableSize \div 4) % TableSize]_vars

\* what the code does instead: phac += tw runs between the two samples of a
\* frame, so the sine index is taken one tuning word later than the cosine
\* index, and the two are 42 or 43 table steps apart instead of 64
C19_FrameSkew ==
    [][(k' # k /\ n % 2 = 1) =>
          /\ TableIndex(n - 1, sinph, cosph) = (SinePhase(Times32(k - 1, tw)) + 64) % 256
          /\ TableIndex(n, sinph', cosph') = SinePhase(Times32(k, tw))
          /\ (TableIndex(n - 1, sinph, cosph) - TableIndex(n, sinph', cosph')) % 256
                \in {42, 43}]_vars

\* C19 failing input: the first frame of the first Fill holds sinewt[64]
\* (cosine of phase 0) and sinewt[21] (sine of phase tw), not sinewt[0]
C19_Witness ==
    /\ hpc = "pop" /\ k = 2 /\ n = 2 /\ pos = 0
    /\ sinph = 21
    /\ dmabuf[0] = sinewt[64] /\ dmabuf[1] = sinewt[21]
    /\ dmabuf[1] # sinewt[0]

\* the reference DDS stream: s_j = sinewt[(j*tw mod 2^32) >> 24] for odd j,
\* sinewt[(((j*tw mod 2^32) >> 24) + 64) mod 256] for even j
StreamIndex(j) ==
    LET top == Times32(j, tw).hi \div 256
    IN  IF j % 2 = 1 THEN top ELSE (top + 64) % 256

StreamRef(j) == GeneratedTable[StreamIndex(j)]

\* C20: as long as no event was raised before the previous event's Fill had
\* finished, the Fill targets alternate first, second, first, ... and after
\* the first pass over the buffer the j-th value the sink reads is s_j of
\* the reference stream: read number 2*DMA_BUFSIZ + j + 1 returns sample j,
\* none skipped, duplicated or reordered.
C20_StreamIsReference ==
    /\ []((reads > BufLen /\ ~missed) =>
            /\ sinkK = reads - 1 - BufLen
            /\ sinkSrc = "done"
            /\ sinkVal = StreamRef(sinkK))
    /\ [](~missed => /\ fillsDone.first - fillsDone.second \in {0, 1}
                     /\ acks.HT - acks.TC \in {0, 1}
                     /\ hpc = "pop" =>
                          pos = (IF fillsDone.first = fillsDone.second
                                 THEN 0 ELSE DMA_BUFSIZ))
    /\ [][(reads' # reads /\ reads >= BufLen /\ ~missed') =>
            /\ reads' = reads + 1
            /\ sinkK' = reads - BufLen
            /\ reads > BufLen => sinkK' = sinkK + 1
            /\ sinkVal' = StreamRef(reads - BufLen)
            /\ sinkVal' = dmabuf[reads % BufLen]]_vars

\* C20 witness: in the third pass over the buffer, with no deadline missed,
\* the sink has just read sample 65 of the reference stream from position 1
C20_Witness ==
    /\ reads = 2 * BufLen + 2 /\ ~missed
    /\ sinkK = BufLen + 1
    /\ sinkVal = StreamRef(BufLen + 1) /\ sinkVal = sinewt[StreamIndex(BufLen + 1)]
    /\ StreamIndex(BufLen + 1) = 139
    /\ fillsDone.first = 2 /\ fillsDone.second >= 1

====
